---------------------------- MODULE Spec2Model ----------------------------
(***************************************************************************)
(* Model of homework.py: the fitness-tracker calculator.                   *)
(*                                                                         *)
(* A client calls read_package once and then calls the methods of the      *)
(* workout it got, in any order and any number of times.  Every call's     *)
(* outcome (the value returned or the exception raised) is recorded.       *)
(*                                                                         *)
(* Numbers.  Python computes in binary floating point; TLC has neither     *)
(* floats nor integers wide enough to carry a 53-bit mantissa.  Numbers    *)
(* are modelled as exact rationals <<n, d>> in lowest terms (d > 0), so    *)
(* the model computes the real-number value of every expression and does   *)
(* not see rounding errors of the last binary digit.                       *)
(*                                                                         *)
(* Text.  A str is modelled as a sequence of tokens: every literal piece   *)
(* of the f-string template is one token, the class name is one token and  *)
(* every character of a formatted number is one token.  The Cyrillic       *)
(* literals are written in Latin transliteration.                          *)
(***************************************************************************)
EXTENDS Integers, Sequences, FiniteSets, TLC

(***************************************************************************)
(* Bounds of the model.                                                    *)
(***************************************************************************)
\* data has 0 .. MaxFields fields
MaxFields == 6
\* durations are 0, 1/2, 1, ... MaxHalfHours/2 hours
MaxHalfHours == 4

(***************************************************************************)
(* Exact rational arithmetic.                                              *)
(***************************************************************************)
Abs(i) == IF i < 0 THEN -i ELSE i

RECURSIVE GCD(_, _)
GCD(a, b) == IF b = 0 THEN a ELSE GCD(b, a % b)

\* n/d in lowest terms with a positive denominator (d # 0)
Norm(n, d) ==
    LET s == IF d < 0 THEN -1 ELSE 1
        g == GCD(Abs(n), Abs(d))
    IN  <<(s * n) \div g, (s * d) \div g>>

Num(i) == <<i, 1>>

RNeg(a) == <<-a[1], a[2]>>

RAdd(a, b) ==
    LET g == GCD(a[2], b[2])
    IN  Norm(a[1] * (b[2] \div g) + b[1] * (a[2] \div g), (a[2] \div g) * b[2])

RSub(a, b) == RAdd(a, RNeg(b))

RMul(a, b) ==
    LET g1 == GCD(Abs(a[1]), b[2])
        g2 == GCD(Abs(b[1]), a[2])
    IN  Norm((a[1] \div g1) * (b[1] \div g2), (a[2] \div g2) * (b[2] \div g1))

\* b # 0
RDiv(a, b) == RMul(a, Norm(b[2], b[1]))

\* the largest integer <= a
RFloor(a) == Num(a[1] \div a[2])

(***************************************************************************)
(* Evaluation of Python expressions.  An outcome is a value or a raised    *)
(* exception; an operator evaluates its left operand first and an          *)
(* exception raised by an operand propagates.                              *)
(***************************************************************************)
Ok(v) == [exc |-> "", val |-> v]
Raise(e) == [exc |-> e, val |-> Num(0)]

PyAdd(a, b) ==
    IF a.exc # "" THEN a ELSE IF b.exc # "" THEN b ELSE Ok(RAdd(a.val, b.val))

PySub(a, b) ==
    IF a.exc # "" THEN a ELSE IF b.exc # "" THEN b ELSE Ok(RSub(a.val, b.val))

PyMul(a, b) ==
    IF a.exc # "" THEN a ELSE IF b.exc # "" THEN b ELSE Ok(RMul(a.val, b.val))

\* a / b
PyTrueDiv(a, b) ==
    IF a.exc # "" THEN a
    ELSE IF b.exc # "" THEN b
    ELSE IF b.val[1] = 0 THEN Raise("ZeroDivisionError")
    ELSE Ok(RDiv(a.val, b.val))

\* a // b
PyFloorDiv(a, b) ==
    IF a.exc # "" THEN a
    ELSE IF b.exc # "" THEN b
    ELSE IF b.val[1] = 0 THEN Raise("ZeroDivisionError")
    ELSE Ok(RFloor(RDiv(a.val, b.val)))

\* a ** 2
PySquare(a) == PyMul(a, a)

\* self.<name>
Attr(self, name) == Ok(self.attrs[name])

(***************************************************************************)
(* class Training and its subclasses.                                      *)
(***************************************************************************)
M_IN_KM == 1000
H_IN_MIN == 60

\* 0.65
Training_LEN_STEP == Norm(65, 100)
\* 1.38
Swimming_LEN_STEP == Norm(138, 100)

\* LEN_STEP without the override of Swimming
LEN_STEP_NotOverridden(cls) == Training_LEN_STEP

\* self.LEN_STEP: the class attribute, looked up in the class of self first
LEN_STEP(cls) ==
    IF cls = "Swimming" THEN Swimming_LEN_STEP ELSE Training_LEN_STEP

CALORIE_RATE_COEFF_RUN_1 == 18
CALORIE_RATE_COEFF_RUN_2 == 20
\* 0.035
CALORIE_RATE_COEFF_WALK_1 == Norm(35, 1000)
\* 0.029
CALORIE_RATE_COEFF_WALK_2 == Norm(29, 1000)
\* 1.1
CALORIE_RATE_COEFF_SWIM_1 == Norm(11, 10)
CALORIE_RATE_COEFF_SWIM_2 == 2

NoTraining == [cls |-> "", attrs |-> <<>>]

\* A call of a constructor with the wrong number of positional arguments
\* raises TypeError.
\* Training.__init__ taking its first three arguments and dropping the rest
Training__init__Lenient(cls, args) ==
    IF Len(args) < 3 THEN [exc |-> "TypeError", obj |-> NoTraining]
    ELSE [exc |-> "",
          obj |-> [cls |-> cls,
                   attrs |-> [action |-> args[1], duration |-> args[2],
                              weight |-> args[3]]]]

Training__init__(cls, args) ==
    IF Len(args) # 3 THEN [exc |-> "TypeError", obj |-> NoTraining]
    ELSE [exc |-> "",
          obj |-> [cls |-> cls,
                   attrs |-> [action |-> args[1], duration |-> args[2],
                              weight |-> args[3]]]]

SportsWalking__init__(cls, args) ==
    IF Len(args) # 4 THEN [exc |-> "TypeError", obj |-> NoTraining]
    ELSE [exc |-> "",
          obj |-> [cls |-> cls,
                   attrs |-> [action |-> args[1], duration |-> args[2],
                              weight |-> args[3], height |-> args[4]]]]

Swimming__init__(cls, args) ==
    IF Len(args) # 5 THEN [exc |-> "TypeError", obj |-> NoTraining]
    ELSE [exc |-> "",
          obj |-> [cls |-> cls,
                   attrs |-> [action |-> args[1], duration |-> args[2],
                              weight |-> args[3], length_pool |-> args[4],
                              count_pool |-> args[5]]]]

\* cls(*args): Running defines no __init__ and inherits Training's
Construct(cls, args) ==
    CASE cls = "SportsWalking" -> SportsWalking__init__(cls, args)
      [] cls = "Swimming" -> Swimming__init__(cls, args)
      [] OTHER -> Training__init__(cls, args)

Training_get_distance(self) ==
    PyTrueDiv(PyMul(Attr(self, "action"), Ok(LEN_STEP(self.cls))),
              Ok(Num(M_IN_KM)))

\* no subclass overrides get_distance
get_distance(self) == Training_get_distance(self)

\* Training.get_mean_speed answering 0 for a workout of no duration
Training_get_mean_speed_Guarded(self) ==
    IF self.attrs["duration"] = Num(0) THEN Ok(Num(0))
    ELSE PyTrueDiv(get_distance(self), Attr(self, "duration"))

Training_get_mean_speed(self) ==
    PyTrueDiv(get_distance(self), Attr(self, "duration"))

\* Swimming without its own get_mean_speed
Swimming_get_mean_speed_NotOverridden(self) ==
    PyTrueDiv(get_distance(self), Attr(self, "duration"))

Swimming_get_mean_speed(self) ==
    PyTrueDiv(PyTrueDiv(PyMul(Attr(self, "length_pool"),
                              Attr(self, "count_pool")),
                        Ok(Num(M_IN_KM))),
              Attr(self, "duration"))

\* self.get_mean_speed(): Swimming overrides it
get_mean_speed(self) ==
    IF self.cls = "Swimming" THEN Swimming_get_mean_speed(self)
    ELSE Training_get_mean_speed(self)

\* Running.get_spent_calories with the duration left in hours
Running_get_spent_calories_InHours(self) ==
    PyMul(PyTrueDiv(PyMul(PySub(PyMul(Ok(Num(CALORIE_RATE_COEFF_RUN_1)),
                                      get_mean_speed(self)),
                                Ok(Num(CALORIE_RATE_COEFF_RUN_2))),
                          Attr(self, "weight")),
                    Ok(Num(M_IN_KM))),
          Attr(self, "duration"))

Running_get_spent_calories(self) ==
    PyMul(PyMul(PyTrueDiv(PyMul(PySub(PyMul(Ok(Num(CALORIE_RATE_COEFF_RUN_1)),
                                            get_mean_speed(self)),
                                      Ok(Num(CALORIE_RATE_COEFF_RUN_2))),
                                Attr(self, "weight")),
                          Ok(Num(M_IN_KM))),
                Attr(self, "duration")),
          Ok(Num(H_IN_MIN)))

\* SportsWalking.get_spent_calories with / in place of //
SportsWalking_get_spent_calories_TrueDiv(self) ==
    PyMul(PyMul(PyAdd(PyMul(Ok(CALORIE_RATE_COEFF_WALK_1),
                            Attr(self, "weight")),
                      PyMul(PyMul(PyTrueDiv(PySquare(get_mean_speed(self)),
                                            Attr(self, "height")),
                                  Ok(CALORIE_RATE_COEFF_WALK_2)),
                            Attr(self, "weight"))),
                Attr(self, "duration")),
          Ok(Num(H_IN_MIN)))

SportsWalking_get_spent_calories(self) ==
    PyMul(PyMul(PyAdd(PyMul(Ok(CALORIE_RATE_COEFF_WALK_1),
                            Attr(self, "weight")),
                      PyMul(PyMul(PyFloorDiv(PySquare(get_mean_speed(self)),
                                             Attr(self, "height")),
                                  Ok(CALORIE_RATE_COEFF_WALK_2)),
                            Attr(self, "weight"))),
                Attr(self, "duration")),
          Ok(Num(H_IN_MIN)))

\* Swimming.get_spent_calories with the mean speed of the base class
Swimming_get_spent_calories_StepSpeed(self) ==
    PyMul(PyMul(PyAdd(Training_get_mean_speed(self),
                      Ok(CALORIE_RATE_COEFF_SWIM_1)),
                Ok(Num(CALORIE_RATE_COEFF_SWIM_2))),
          Attr(self, "weight"))

Swimming_get_spent_calories(self) ==
    PyMul(PyMul(PyAdd(get_mean_speed(self), Ok(CALORIE_RATE_COEFF_SWIM_1)),
                Ok(Num(CALORIE_RATE_COEFF_SWIM_2))),
          Attr(self, "weight"))

\* self.get_spent_calories(): every class read_package constructs overrides
\* the one of Training
get_spent_calories(self) ==
    CASE self.cls = "Running" -> Running_get_spent_calories(self)
      [] self.cls = "SportsWalking" -> SportsWalking_get_spent_calories(self)
      [] self.cls = "Swimming" -> Swimming_get_spent_calories(self)

(***************************************************************************)
(* class InfoMessage.                                                      *)
(***************************************************************************)
NoInfo ==
    [training_type |-> "", duration |-> Num(0), distance |-> Num(0),
     speed |-> Num(0), calories |-> Num(0)]

\* The arguments of InfoMessage(...) are evaluated left to right; the first
\* exception propagates and no InfoMessage is made.
show_training_info(self) ==
    LET distance == get_distance(self)
        speed == get_mean_speed(self)
        calories == get_spent_calories(self)
    IN  IF distance.exc # "" THEN [exc |-> distance.exc, val |-> NoInfo]
        ELSE IF speed.exc # "" THEN [exc |-> speed.exc, val |-> NoInfo]
        ELSE IF calories.exc # "" THEN [exc |-> calories.exc, val |-> NoInfo]
        ELSE [exc |-> "",
              val |-> [training_type |-> self.cls,
                       duration |-> self.attrs["duration"],
                       distance |-> distance.val,
                       speed |-> speed.val,
                       calories |-> calories.val]]

Digit == <<"0", "1", "2", "3", "4", "5", "6", "7", "8", "9">>

\* the decimal digits of the natural number i
RECURSIVE DecimalDigits(_)
DecimalDigits(i) ==
    IF i < 10 THEN <<Digit[i + 1]>>
    ELSE Append(DecimalDigits(i \div 10), Digit[(i % 10) + 1])

\* f'{x:.3f}': x rounded to a multiple of 1/1000, ties to the even one; the
\* sign is that of x even when the rounded value is zero
Format3f(x) ==
    LET a == Abs(x[1])
        whole == a \div x[2]
        rest == (a % x[2]) * 1000
        q == rest \div x[2]
        r == rest % x[2]
        up == (2 * r > x[2]) \/ (2 * r = x[2] /\ q % 2 = 1)
        thousandths == whole * 1000 + q + (IF up THEN 1 ELSE 0)
        frac == thousandths % 1000
    IN  (IF x[1] < 0 THEN <<"-">> ELSE <<>>)
        \o DecimalDigits(thousandths \div 1000)
        \o <<".", Digit[(frac \div 100) + 1], Digit[((frac \div 10) % 10) + 1],
             Digit[(frac % 10) + 1]>>

\* get_message with the distance and the mean speed in each other's place
get_message_Swapped(self) ==
    <<"Tip trenirovki: ", self.training_type, "; Dlitelnost: ">>
    \o Format3f(self.duration)
    \o <<" ch.; Distantsiya: ">>
    \o Format3f(self.speed)
    \o <<" km; Sr. skorost: ">>
    \o Format3f(self.distance)
    \o <<" km/ch; Potracheno kkal: ">>
    \o Format3f(self.calories)
    \o <<".">>

\* The literal pieces of the f-string are, in the source,
\*   'Тип тренировки: ', '; Длительность: ', ' ч.; Дистанция: ',
\*   ' км; Ср. скорость: ', ' км/ч; Потрачено ккал: ' and '.'
get_message(self) ==
    <<"Tip trenirovki: ", self.training_type, "; Dlitelnost: ">>
    \o Format3f(self.duration)
    \o <<" ch.; Distantsiya: ">>
    \o Format3f(self.distance)
    \o <<" km; Sr. skorost: ">>
    \o Format3f(self.speed)
    \o <<" km/ch; Potracheno kkal: ">>
    \o Format3f(self.calories)
    \o <<".">>

(***************************************************************************)
(* read_package.                                                           *)
(***************************************************************************)
\* the table with two of its classes exchanged
dict_training_data_Exchanged ==
    [SWM |-> "Running", RUN |-> "Swimming", WLK |-> "SportsWalking"]

dict_training_data ==
    [SWM |-> "Swimming", RUN |-> "Running", WLK |-> "SportsWalking"]

read_package(workout_type, data) ==
    IF workout_type \notin DOMAIN dict_training_data
    THEN [exc |-> "KeyError", obj |-> NoTraining]
    ELSE Construct(dict_training_data[workout_type], data)

(***************************************************************************)
(* The inputs.                                                             *)
(***************************************************************************)
WorkoutTypes == {"SWM", "RUN", "WLK", "swm", "XYZ", ""}

ActionValues == {Num(0), Num(720), Num(9000), Num(15000)}
DurationValues == {Norm(h, 2) : h \in 0 .. MaxHalfHours}
WeightValues == {Num(75), Num(80)}
\* height of SportsWalking, length_pool of Swimming
FourthValues == {Num(0), Num(2), Num(25), Num(180)}
\* count_pool of Swimming
FifthValues == {Num(0), Num(40)}
OtherValues == {Num(1)}

FieldValues(i) ==
    CASE i = 1 -> ActionValues
      [] i = 2 -> DurationValues
      [] i = 3 -> WeightValues
      [] i = 4 -> FourthValues
      [] i = 5 -> FifthValues
      [] OTHER -> OtherValues

\* the sequences of n fields
RECURSIVE DataOfLen(_)
DataOfLen(n) ==
    IF n = 0 THEN {<<>>}
    ELSE {Append(d, v) : d \in DataOfLen(n - 1), v \in FieldValues(n)}

Methods ==
    {"get_distance", "get_mean_speed", "get_spent_calories",
     "show_training_info", "get_message"}

(***************************************************************************)
(* The state.                                                              *)
(***************************************************************************)
VARIABLES
    pc,            \* "start" before read_package is called, "done" after
    workout_type,  \* the arguments of the call of read_package
    data,
    raised,        \* the exception read_package raised, "" if none
    training,      \* the workout read_package returned, NoTraining if none
    called,        \* the methods called so far
    ret            \* the outcome of the last call of every method

vars == <<pc, workout_type, data, raised, training, called, ret>>

Init ==
    /\ pc = "start"
    /\ workout_type = ""
    /\ data = <<>>
    /\ raised = ""
    /\ training = NoTraining
    /\ called = {}
    /\ ret = [get_distance |-> Ok(Num(0)),
              get_mean_speed |-> Ok(Num(0)),
              get_spent_calories |-> Ok(Num(0)),
              show_training_info |-> [exc |-> "", val |-> NoInfo],
              get_message |-> <<>>]

ReadPackage ==
    /\ pc = "start"
    /\ \E w \in WorkoutTypes, n \in 0 .. MaxFields :
          \E d \in DataOfLen(n) :
             LET r == read_package(w, d)
             IN  /\ workout_type' = w
                 /\ data' = d
                 /\ raised' = r.exc
                 /\ training' = r.obj
    /\ pc' = "done"
    /\ UNCHANGED <<called, ret>>

GetDistance ==
    /\ training # NoTraining
    /\ ret' = [ret EXCEPT !.get_distance = get_distance(training)]
    /\ called' = called \cup {"get_distance"}
    /\ UNCHANGED <<pc, workout_type, data, raised, training>>

GetMeanSpeed ==
    /\ training # NoTraining
    /\ ret' = [ret EXCEPT !.get_mean_speed = get_mean_speed(training)]
    /\ called' = called \cup {"get_mean_speed"}
    /\ UNCHANGED <<pc, workout_type, data, raised, training>>

GetSpentCalories ==
    /\ training # NoTraining
    /\ ret' = [ret EXCEPT !.get_spent_calories = get_spent_calories(training)]
    /\ called' = called \cup {"get_spent_calories"}
    /\ UNCHANGED <<pc, workout_type, data, raised, training>>

\* show_training_info converting self.duration to minutes in place
ShowTrainingInfo_InPlace ==
    /\ training # NoTraining
    /\ ret' = [ret EXCEPT !.show_training_info = show_training_info(training)]
    /\ called' = called \cup {"show_training_info"}
    /\ training' = [training EXCEPT
                       !.attrs["duration"] = RMul(@, Num(H_IN_MIN))]
    /\ UNCHANGED <<pc, workout_type, data, raised>>

ShowTrainingInfo ==
    /\ training # NoTraining
    /\ ret' = [ret EXCEPT !.show_training_info = show_training_info(training)]
    /\ called' = called \cup {"show_training_info"}
    /\ UNCHANGED <<pc, workout_type, data, raised, training>>

\* get_message of the InfoMessage show_training_info returned
GetMessage ==
    /\ "show_training_info" \in called
    /\ ret.show_training_info.exc = ""
    /\ ret' = [ret EXCEPT !.get_message = get_message(ret.show_training_info.val)]
    /\ called' = called \cup {"get_message"}
    /\ UNCHANGED <<pc, workout_type, data, raised, training>>

Next ==
    \/ ReadPackage
    \/ GetDistance
    \/ GetMeanSpeed
    \/ GetSpentCalories
    \/ ShowTrainingInfo
    \/ GetMessage

Spec == Init /\ [][Next]_vars

(***************************************************************************)
(* The properties.  Each is stated from the inputs and the recorded        *)
(* outcomes, with its own arithmetic, not with the operators above that    *)
(* model the methods.                                                      *)
(***************************************************************************)
Recognized == {"SWM", "RUN", "WLK"}

\* the attribute x of the workout
Field(x) == training.attrs[x]

\* C1: read_package answers "SWM" with a Swimming, "RUN" with a Running and
\* "WLK" with a SportsWalking workout; every other code raises KeyError,
\* whatever the data, and no workout is constructed.
C1_Dispatch ==
    pc = "done" =>
        /\ workout_type \in Recognized => raised # "KeyError"
        /\ workout_type = "SWM" /\ raised = "" => training.cls = "Swimming"
        /\ workout_type = "RUN" /\ raised = "" => training.cls = "Running"
        /\ workout_type = "WLK" /\ raised = "" => training.cls = "SportsWalking"
        /\ raised = "" => training # NoTraining
        /\ workout_type \notin Recognized =>
              raised = "KeyError" /\ training = NoTraining

\* an unrecognized code, given data a constructor would take, raised KeyError
C1_Witness ==
    /\ pc = "done"
    /\ workout_type = "swm"
    /\ Len(data) = 5
    /\ raised = "KeyError"

\* C7: with a recognized code read_package succeeds exactly when data has as
\* many fields as the constructor takes (RUN 3, WLK 4, SWM 5); the fields
\* are then assigned in the order action, duration, weight and the fields of
\* the discipline; any other number of fields raises TypeError and no
\* workout is returned.
C7_FieldCount ==
    pc = "done" /\ workout_type \in Recognized =>
        LET arity == CASE workout_type = "RUN" -> 3
                       [] workout_type = "WLK" -> 4
                       [] workout_type = "SWM" -> 5
            names == CASE workout_type = "RUN" ->
                            <<"action", "duration", "weight">>
                       [] workout_type = "WLK" ->
                            <<"action", "duration", "weight", "height">>
                       [] workout_type = "SWM" ->
                            <<"action", "duration", "weight", "length_pool",
                              "count_pool">>
        IN  IF Len(data) = arity
            THEN /\ raised = ""
                 /\ DOMAIN training.attrs = {names[i] : i \in 1 .. arity}
                 /\ \A i \in 1 .. arity : Field(names[i]) = data[i]
            ELSE /\ raised = "TypeError"
                 /\ training = NoTraining

\* a recognized code with one field too many raised TypeError
C7_Witness ==
    /\ pc = "done"
    /\ workout_type = "RUN"
    /\ Len(data) = 4
    /\ raised = "TypeError"
    /\ training = NoTraining

\* C2: for a Running workout of non-zero duration get_spent_calories is
\* (18 * speed - 20) * weight / 1000 * (duration * 60), where speed, the
\* value of get_mean_speed, is (action * 0.65 / 1000) / duration; for
\* action 15000, duration 1 and weight 75 the distance is 9.75, the speed
\* 9.75 and the calories 699.75.
C2_RunningCalories ==
    training.cls = "Running" /\ Field("duration") # Num(0) =>
        LET speed == RDiv(RDiv(RMul(Field("action"), Norm(65, 100)), Num(1000)),
                          Field("duration"))
            minutes == RMul(Field("duration"), Num(60))
            calories ==
                RMul(RDiv(RMul(RSub(RMul(Num(18), speed), Num(20)),
                               Field("weight")),
                          Num(1000)),
                     minutes)
            sample == /\ Field("action") = Num(15000)
                      /\ Field("duration") = Num(1)
                      /\ Field("weight") = Num(75)
        IN  /\ "get_mean_speed" \in called => ret.get_mean_speed = Ok(speed)
            /\ "get_spent_calories" \in called =>
                  ret.get_spent_calories = Ok(calories)
            /\ sample /\ "get_distance" \in called =>
                  ret.get_distance = Ok(Norm(975, 100))
            /\ sample /\ "get_mean_speed" \in called =>
                  ret.get_mean_speed = Ok(Norm(975, 100))
            /\ sample /\ "get_spent_calories" \in called =>
                  ret.get_spent_calories = Ok(Norm(69975, 100))

\* the sample workout with its three metrics computed
C2_Witness ==
    /\ training.cls = "Running"
    /\ Field("action") = Num(15000)
    /\ Field("duration") = Num(1)
    /\ Field("weight") = Num(75)
    /\ {"get_distance", "get_mean_speed", "get_spent_calories"} \subseteq called
    /\ ret.get_spent_calories = Ok(Norm(69975, 100))

\* C3: for a SportsWalking workout of non-zero duration and non-zero height
\* get_spent_calories is
\* (0.035 * weight + floor(speed^2 / height) * 0.029 * weight) * (duration * 60)
\* with speed = (action * 0.65 / 1000) / duration; speed^2 / height is
\* rounded down to an integer.
C3_WalkingCalories ==
    /\ training.cls = "SportsWalking"
    /\ Field("duration") # Num(0)
    /\ Field("height") # Num(0)
    /\ "get_spent_calories" \in called
    => LET speed == RDiv(RDiv(RMul(Field("action"), Norm(65, 100)), Num(1000)),
                         Field("duration"))
           ratio == RDiv(RMul(speed, speed), Field("height"))
           \* the integer k with k <= ratio < k + 1
           k == CHOOSE i \in (ratio[1] \div ratio[2]) - 1 .. (ratio[1] \div ratio[2]) + 1 :
                    /\ i * ratio[2] <= ratio[1]
                    /\ ratio[1] < (i + 1) * ratio[2]
           minutes == RMul(Field("duration"), Num(60))
       IN  ret.get_spent_calories =
               Ok(RMul(RAdd(RMul(Norm(35, 1000), Field("weight")),
                            RMul(RMul(Num(k), Norm(29, 1000)), Field("weight"))),
                       minutes))

\* calories computed where speed^2 / height is no integer and is at least 1
C3_Witness ==
    /\ training.cls = "SportsWalking"
    /\ Field("duration") # Num(0)
    /\ Field("height") # Num(0)
    /\ "get_spent_calories" \in called
    /\ ret.get_spent_calories.exc = ""
    /\ LET speed == RDiv(RDiv(RMul(Field("action"), Norm(65, 100)), Num(1000)),
                         Field("duration"))
           ratio == RDiv(RMul(speed, speed), Field("height"))
       IN  ratio[2] # 1 /\ ratio[1] > ratio[2]

\* the workout with its attribute x set to v
With(x, v) == [training EXCEPT !.attrs[x] = v]

\* the mean speed the base class computes from the step count
StepSpeed ==
    RDiv(RDiv(RMul(Field("action"), Norm(138, 100)), Num(1000)),
         Field("duration"))

\* the mean speed of a swim computed from the pool
PoolSpeed ==
    RDiv(RDiv(RMul(Field("length_pool"), Field("count_pool")), Num(1000)),
         Field("duration"))

\* C4: for a Swimming workout of non-zero duration get_mean_speed is
\* length_pool * count_pool / 1000 / duration and does not depend on the
\* action count: the workouts that differ from it only in action have the
\* same mean speed.
C4_SwimmingMeanSpeed ==
    /\ training.cls = "Swimming"
    /\ Field("duration") # Num(0)
    /\ "get_mean_speed" \in called
    => /\ ret.get_mean_speed = Ok(PoolSpeed)
       /\ \A a \in ActionValues :
             get_mean_speed(With("action", a)) = ret.get_mean_speed

\* the mean speed of a swim whose step count gives another speed
C4_Witness ==
    /\ training.cls = "Swimming"
    /\ Field("duration") # Num(0)
    /\ "get_mean_speed" \in called
    /\ ret.get_mean_speed.exc = ""
    /\ ret.get_mean_speed.val # Num(0)
    /\ StepSpeed # PoolSpeed

\* C5: for a Swimming workout of non-zero duration get_spent_calories is
\* (speed + 1.1) * 2 * weight, speed being the mean speed computed from the
\* pool (length_pool * count_pool / 1000 / duration), not from the steps.
C5_SwimmingCalories ==
    /\ training.cls = "Swimming"
    /\ Field("duration") # Num(0)
    /\ "get_spent_calories" \in called
    => ret.get_spent_calories =
           Ok(RMul(RMul(RAdd(PoolSpeed, Norm(11, 10)), Num(2)), Field("weight")))

\* the calories of a swim whose step count gives another speed
C5_Witness ==
    /\ training.cls = "Swimming"
    /\ Field("duration") # Num(0)
    /\ "get_spent_calories" \in called
    /\ ret.get_spent_calories.exc = ""
    /\ PoolSpeed # Num(0)
    /\ StepSpeed # PoolSpeed

\* C6: get_distance is action * step_length / 1000, the step length being
\* 0.65 for Running and SportsWalking and 1.38 for Swimming; it depends on
\* no attribute but action.
C6_Distance ==
    training # NoTraining /\ "get_distance" \in called =>
        LET step == CASE training.cls = "Running" -> Norm(65, 100)
                      [] training.cls = "SportsWalking" -> Norm(65, 100)
                      [] training.cls = "Swimming" -> Norm(138, 100)
        IN  /\ ret.get_distance =
                  Ok(RDiv(RMul(Field("action"), step), Num(1000)))
            /\ \A x \in (DOMAIN training.attrs) \ {"action"} :
                  \A v \in DurationValues \cup WeightValues
                           \cup FourthValues \cup FifthValues :
                     get_distance(With(x, v)) = ret.get_distance

\* the distance of a swim of some strokes
C6_Witness ==
    /\ training.cls = "Swimming"
    /\ Field("action") # Num(0)
    /\ "get_distance" \in called
    /\ ret.get_distance.exc = ""

\* C8: read_package accepts a duration of zero for every class; then
\* get_mean_speed, get_spent_calories and show_training_info raise
\* ZeroDivisionError, no InfoMessage and no message text is produced, and
\* get_distance returns its value.
C8_ZeroDuration ==
    /\ /\ pc = "done"
       /\ workout_type \in Recognized
       /\ Len(data) = (CASE workout_type = "RUN" -> 3
                         [] workout_type = "WLK" -> 4
                         [] workout_type = "SWM" -> 5)
       /\ data[2] = Num(0)
       => raised = "" /\ training # NoTraining /\ Field("duration") = Num(0)
    /\ training # NoTraining /\ Field("duration") = Num(0) =>
          /\ "get_distance" \in called => ret.get_distance.exc = ""
          /\ "get_mean_speed" \in called =>
                ret.get_mean_speed.exc = "ZeroDivisionError"
          /\ "get_spent_calories" \in called =>
                ret.get_spent_calories.exc = "ZeroDivisionError"
          /\ "show_training_info" \in called =>
                /\ ret.show_training_info.exc = "ZeroDivisionError"
                /\ ret.show_training_info.val = NoInfo
          /\ "get_message" \notin called
          /\ ret.get_message = <<>>

\* a walk of no duration on which the four methods were called
C8_Witness ==
    /\ training.cls = "SportsWalking"
    /\ Field("duration") = Num(0)
    /\ Field("action") # Num(0)
    /\ {"get_distance", "get_mean_speed", "get_spent_calories",
        "show_training_info"} \subseteq called
    /\ ret.get_distance.exc = ""
    /\ ret.show_training_info.exc = "ZeroDivisionError"

DigitChars == {"0", "1", "2", "3", "4", "5", "6", "7", "8", "9"}

\* t reads -?[0-9]+\.[0-9][0-9][0-9]
IsDec3(t) ==
    /\ Len(t) >= 5
    /\ t[Len(t) - 3] = "."
    /\ \A i \in Len(t) - 2 .. Len(t) : t[i] \in DigitChars
    /\ \A i \in 2 .. Len(t) - 4 : t[i] \in DigitChars
    /\ t[1] \in DigitChars \cup {"-"}
    /\ t[1] = "-" => Len(t) >= 6

DigitValue(c) == CHOOSE i \in 0 .. 9 : Digit[i + 1] = c

\* the number of thousandths a text that IsDec3 reads as, without its sign
RECURSIVE Thousandths(_)
Thousandths(t) ==
    IF t = <<>> THEN 0
    ELSE LET c == t[Len(t)]
             front == SubSeq(t, 1, Len(t) - 1)
         IN  IF c \in DigitChars THEN Thousandths(front) * 10 + DigitValue(c)
             ELSE Thousandths(front)

\* t is the number x to 3 decimal places: it IsDec3, it is within 1/2000 of
\* x and it has the sign of x
Renders(t, x) ==
    /\ IsDec3(t)
    /\ (t[1] = "-") = (x[1] < 0)
    /\ LET diff == Thousandths(t) * x[2] - 1000 * (IF x[1] < 0 THEN -x[1] ELSE x[1])
       IN  2 * diff <= x[2] /\ -2 * diff <= x[2]

\* C9: the text of show_training_info().get_message() is
\* 'Тип тренировки: <name>; Длительность: <d> ч.; Дистанция: <d> км;
\* Ср. скорость: <d> км/ч; Потрачено ккал: <d>.', the name being the class
\* of the workout and the four numbers the duration, the distance, the mean
\* speed and the calories, each with exactly 3 decimal places.
C9_MessageTemplate ==
    "get_message" \in called =>
        LET m == ret.get_message
            n == Len(m)
        IN  /\ n >= 27
            /\ m[1] = "Tip trenirovki: "
            /\ m[2] = training.cls
            /\ m[2] \in {"Running", "SportsWalking", "Swimming"}
            /\ m[3] = "; Dlitelnost: "
            /\ m[n] = "."
            /\ \E i, j, k \in 4 .. n - 1 :
                  /\ i < j /\ j < k
                  /\ m[i] = " ch.; Distantsiya: "
                  /\ m[j] = " km; Sr. skorost: "
                  /\ m[k] = " km/ch; Potracheno kkal: "
                  /\ Renders(SubSeq(m, 4, i - 1), Field("duration"))
                  /\ Renders(SubSeq(m, i + 1, j - 1),
                             RDiv(RMul(Field("action"),
                                       IF training.cls = "Swimming"
                                       THEN Norm(138, 100) ELSE Norm(65, 100)),
                                  Num(1000)))
                  /\ Renders(SubSeq(m, j + 1, k - 1),
                             ret.show_training_info.val.speed)
                  /\ Renders(SubSeq(m, k + 1, n - 1),
                             ret.show_training_info.val.calories)
                  /\ ret.show_training_info.val.speed =
                         get_mean_speed(training).val
                  /\ ret.show_training_info.val.calories =
                         get_spent_calories(training).val

\* the message of a run that burnt less than nothing: a number with a sign
C9_Witness ==
    /\ "get_message" \in called
    /\ training.cls = "Running"
    /\ ret.show_training_info.val.calories[1] < 0
    /\ ret.show_training_info.val.speed # ret.show_training_info.val.distance

\* C10: once the workout is constructed no call changes any of its
\* attributes, and every call of a method returns what the earlier calls of
\* that method on the workout returned.
C10_NoMutation ==
    [][pc = "done" =>
          /\ training' = training
          /\ \A m \in called : ret'[m] = ret[m]]_vars

\* every method has been called
C10_Witness ==
    /\ pc = "done"
    /\ called = Methods
    /\ Field("action") # Num(0)

=============================================================================
